---- MODULE Spec2Model ----
(***************************************************************************)
(* Model of app/(tabs)/home/search-results.jsx: the search effect of       *)
(* SearchResultsScreen (exact / similar / forSymptom buckets and the       *)
(* adverse-reaction alert) and the handleNewSearch handler.                *)
(*                                                                         *)
(* A JavaScript string is a sequence of one-character strings, so that     *)
(* toLowerCase, trim, includes and join are computed, not assumed.         *)
(***************************************************************************)
EXTENDS Integers, Sequences, FiniteSets, TLC

\* ------------------------------------------------------------------ bounds
MaxCatalog == 3
MaxUserDrugs == 2
MaxNavigations == 2

\* ------------------------------------------------------- JavaScript values
\* The value of a missing route parameter; no string of the model equals it.
Undefined == <<"undefined">>
\* useState(null)
NULL == <<"null">>

\* ---------------------------------------------------- String primitives
LowerChar(c) ==
  CASE c = "A" -> "a"
    [] c = "B" -> "b"
    [] OTHER -> c

ToLowerCase(s) == [i \in 1..Len(s) |-> LowerChar(s[i])]

IsWhiteSpace(c) == c = " "

RECURSIVE TrimStart(_)
TrimStart(s) ==
  IF s # <<>> /\ IsWhiteSpace(Head(s)) THEN TrimStart(Tail(s)) ELSE s

RECURSIVE TrimEnd(_)
TrimEnd(s) ==
  IF s # <<>> /\ IsWhiteSpace(s[Len(s)]) THEN TrimEnd(SubSeq(s, 1, Len(s) - 1)) ELSE s

Trim(s) == TrimEnd(TrimStart(s))

\* String.prototype.includes
Includes(s, t) ==
  \E i \in 0..(Len(s) - Len(t)) : SubSeq(s, i + 1, i + Len(t)) = t

\* Array.prototype.join
RECURSIVE Join(_, _)
Join(parts, sep) ==
  IF parts = <<>> THEN <<>>
  ELSE IF Len(parts) = 1 THEN parts[1]
  ELSE parts[1] \o sep \o Join(Tail(parts), sep)

\* Array.prototype.map(drug => drug.name)
MapName(drugs) == [i \in 1..Len(drugs) |-> drugs[i].name]

\* ---------------------------------------------------------- sample inputs
RecordShapes ==
  { [name |-> <<"a">>,      category |-> "x", indications |-> [keywords |-> << <<"b">>, <<"A">> >>]],
    [name |-> <<"A">>,      category |-> "x", indications |-> [keywords |-> << <<"a">> >>]],
    [name |-> <<"A">>,      category |-> "y", indications |-> [keywords |-> << >>]],
    [name |-> <<"a", "b">>, category |-> "x", indications |-> [keywords |-> << <<"a", "b">> >>]],
    [name |-> <<"A", "b">>, category |-> "y", indications |-> [keywords |-> << <<"B">> >>]],
    [name |-> <<"b">>,      category |-> "y", indications |-> [keywords |-> << <<"c">>, <<"b", "a">> >>]] }

\* ids are unique: the record at position i of the catalog has id i
MakeCatalog(shapes) ==
  [i \in 1..Len(shapes) |->
     [id |-> i, name |-> shapes[i].name, category |-> shapes[i].category,
      indications |-> shapes[i].indications]]

SeqsUpTo(S, n) == UNION { [1..k -> S] : k \in 0..n }

Catalogs == { MakeCatalog(s) : s \in SeqsUpTo(RecordShapes, MaxCatalog) }

ScreenCatalogs ==
  { MakeCatalog(<< [name |-> <<"a">>, category |-> "x", indications |-> [keywords |-> << <<"b">>, <<"A">> >>]],
                   [name |-> <<"A", "b">>, category |-> "y", indications |-> [keywords |-> << <<"B">> >>]],
                   [name |-> <<"b">>, category |-> "x", indications |-> [keywords |-> << <<"a">> >>]] >>) }

DrugShapes ==
  { [name |-> <<"p">>, adverseReactions |-> [symptoms |-> << <<"A">>, <<"c">> >>]],
    [name |-> <<>>,    adverseReactions |-> [symptoms |-> << <<"a", "b">> >>]],
    [name |-> <<"q">>, adverseReactions |-> [symptoms |-> << >>]] }

ScreenDrugShapes ==
  { [name |-> <<"p">>, adverseReactions |-> [symptoms |-> << <<"A">>, <<"c">> >>]],
    [name |-> <<>>,    adverseReactions |-> [symptoms |-> << <<"a", "b">> >>]] }

DrugLists == SeqsUpTo(ScreenDrugShapes, MaxUserDrugs)

SearchDrugLists == SeqsUpTo(DrugShapes, 1)

Texts ==
  { <<>>, <<" ">>, <<"a">>, <<"A", " ">>, <<" ", "a", "b">>, <<"b">> }

Queries == Texts \cup {Undefined}

\* ------------------------------------------------------------------ state
VARIABLES
  catalog,        \* MEDICAMENTOS
  query,          \* useLocalSearchParams().query
  userDrugs,      \* useUserPanel().userDrugs
  newQuery,       \* useState('')
  results,        \* useState({ exact: [], similar: [], forSymptom: [] })
  symptomAlert,   \* useState(null)
  effectPending,  \* the effect's dependencies changed and it has not run yet
  faulted,        \* the effect threw
  navigations,    \* number of router.replace calls issued
  lastCall        \* the handler that ran last

vars == <<catalog, query, userDrugs, newQuery, results, symptomAlert,
          effectPending, faulted, navigations, lastCall>>

\* ------------------------------------------------------ the search effect
lowerCaseQuery(q) == Trim(ToLowerCase(q))

\* exactMatch comparing the stored name as written
exactMatchCaseSensitive(C, q) ==
  SelectSeq(C, LAMBDA m : m.name = lowerCaseQuery(q))

exactMatch(C, q) ==
  SelectSeq(C, LAMBDA m : ToLowerCase(m.name) = lowerCaseQuery(q))

\* partialMatch comparing the stored name as written
partialMatchCaseSensitive(C, q) ==
  SelectSeq(C, LAMBDA m : /\ Includes(m.name, lowerCaseQuery(q))
                          /\ m.name # lowerCaseQuery(q))

partialMatch(C, q) ==
  SelectSeq(C, LAMBDA m : /\ Includes(ToLowerCase(m.name), lowerCaseQuery(q))
                          /\ ToLowerCase(m.name) # lowerCaseQuery(q))

forSymptomMatch(C, q) ==
  SelectSeq(C, LAMBDA m :
    \E k \in 1..Len(m.indications.keywords) :
      Includes(m.indications.keywords[k], lowerCaseQuery(q)))

similarMatch(C, q) ==
  LET exact == exactMatch(C, q) IN
  IF Len(exact) > 0
  THEN SelectSeq(C, LAMBDA m : m.category = exact[1].category /\ m.id # exact[1].id)
  ELSE <<>>

\* similarAndPartial spreading the partial matches first
similarAndPartialPartialFirst(C, q) ==
  LET exact == exactMatch(C, q)
      similar == similarMatch(C, q) IN
  SelectSeq(partialMatch(C, q), LAMBDA pm :
    /\ ~ \E i \in 1..Len(similar) : similar[i].id = pm.id
    /\ ~ \E i \in 1..Len(exact) : exact[i].id = pm.id)
  \o similar

similarAndPartial(C, q) ==
  LET exact == exactMatch(C, q)
      similar == similarMatch(C, q) IN
  similar \o
  SelectSeq(partialMatch(C, q), LAMBDA pm :
    /\ ~ \E i \in 1..Len(similar) : similar[i].id = pm.id
    /\ ~ \E i \in 1..Len(exact) : exact[i].id = pm.id)

searchResults(C, q) ==
  [exact |-> exactMatch(C, q),
   similar |-> similarAndPartial(C, q),
   forSymptom |-> forSymptomMatch(C, q)]

conflictingDrugs(D, q) ==
  Join(MapName(SelectSeq(D, LAMBDA drug :
         \E k \in 1..Len(drug.adverseReactions.symptoms) :
           Includes(ToLowerCase(drug.adverseReactions.symptoms[k]), lowerCaseQuery(q)))),
       <<",", " ">>)

alertMessage(q, names) ==
  <<"O sintoma \"">> \o q \o <<"\" pode ser um efeito colateral de: ">> \o names \o <<".">>

\* lines 82-86 without the else branch
symptomAlertAfterNoReset(before, D, q) ==
  IF conflictingDrugs(D, q) # <<>>
  THEN alertMessage(q, conflictingDrugs(D, q))
  ELSE before

\* the value of symptomAlert after lines 82-86, given its value before
symptomAlertAfter(before, D, q) ==
  IF conflictingDrugs(D, q) # <<>>
  THEN alertMessage(q, conflictingDrugs(D, q))
  ELSE NULL

emptyResults == [exact |-> <<>>, similar |-> <<>>, forSymptom |-> <<>>]

\* -------------------------------------------------------------- behaviour
InitWith(catalogs, drugLists) ==
  /\ catalog \in catalogs
  /\ query \in Queries
  /\ userDrugs \in drugLists
  /\ newQuery = <<>>
  /\ results = emptyResults
  /\ symptomAlert = NULL
  /\ effectPending = TRUE
  /\ faulted = FALSE
  /\ navigations = 0
  /\ lastCall = "mount"

Init == InitWith(ScreenCatalogs, DrugLists)

InitSearch == InitWith(Catalogs, SearchDrugLists)

\* useEffect(() => { ... }, [query, userDrugs])
RunEffect ==
  /\ effectPending
  /\ ~faulted
  /\ effectPending' = FALSE
  /\ lastCall' = "effect"
  /\ IF query = Undefined
     THEN \* query.toLowerCase() throws a TypeError
          /\ faulted' = TRUE
          /\ UNCHANGED <<results, symptomAlert>>
     ELSE /\ faulted' = FALSE
          /\ results' = searchResults(catalog, query)
          /\ symptomAlert' = symptomAlertAfter(symptomAlert, userDrugs, query)
  /\ UNCHANGED <<catalog, query, userDrugs, newQuery, navigations>>

\* onChangeText={setNewQuery}
setNewQuery(text) ==
  /\ ~faulted
  /\ newQuery' = text
  /\ lastCall' = "setNewQuery"
  /\ UNCHANGED <<catalog, query, userDrugs, results, symptomAlert,
                 effectPending, faulted, navigations>>

\* the guard of handleNewSearch without trim()
shouldNavigateNoTrim(text) == text # <<>>

shouldNavigate(text) == Trim(text) # <<>>

handleNewSearch ==
  /\ ~faulted
  /\ navigations < MaxNavigations
  /\ lastCall' = "handleNewSearch"
  /\ IF shouldNavigate(newQuery)
     THEN \* router.replace({ pathname, params: { query: newQuery } })
          /\ navigations' = navigations + 1
          /\ query' = newQuery
          /\ effectPending' = (effectPending \/ newQuery # query)
     ELSE UNCHANGED <<navigations, query, effectPending>>
  /\ UNCHANGED <<catalog, userDrugs, newQuery, results, symptomAlert, faulted>>

\* the user panel provider supplies a new list
setUserDrugs(drugs) ==
  /\ ~faulted
  /\ drugs # userDrugs
  /\ userDrugs' = drugs
  /\ effectPending' = TRUE
  /\ lastCall' = "setUserDrugs"
  /\ UNCHANGED <<catalog, query, newQuery, results, symptomAlert, faulted, navigations>>

Next ==
  \/ RunEffect
  \/ \E text \in Texts : setNewQuery(text)
  \/ handleNewSearch
  \/ \E drugs \in DrugLists : setUserDrugs(drugs)

Spec == Init /\ [][Next]_vars

NextSearch == RunEffect

SpecSearch == InitSearch /\ [][NextSearch]_vars

\* ================================================================== claims
\* The effect for the latest change of query / userDrugs has run to its end.
Ran == ~effectPending /\ ~faulted

\* the query trimmed and lower-cased
NormalizedQuery == ToLowerCase(Trim(query))

IsBlank(text) == \A i \in 1..Len(text) : text[i] = " "

InBucket(bucket, m) == \E i \in 1..Len(bucket) : bucket[i] = m

Occurrences(bucket, m) == Cardinality({i \in 1..Len(bucket) : bucket[i].id = m.id})

PositionOf(m) == CHOOSE k \in 1..Len(catalog) : catalog[k].id = m.id

InCatalogOrder(bucket) ==
  \A i, j \in 1..Len(bucket) : i < j => PositionOf(bucket[i]) < PositionOf(bucket[j])

NameEqualsQuery(m) == ToLowerCase(m.name) = NormalizedQuery

NameContainsQuery(m) ==
  Includes(ToLowerCase(m.name), NormalizedQuery) /\ ~NameEqualsQuery(m)

SharesFirstExactCategory(m) ==
  /\ results.exact # <<>>
  /\ m.category = results.exact[1].category
  /\ m.id # results.exact[1].id

DrugConflicts(drug) ==
  \E k \in 1..Len(drug.adverseReactions.symptoms) :
    Includes(ToLowerCase(drug.adverseReactions.symptoms[k]), NormalizedQuery)

\* C1: after the effect has run, no record of `similar` has the id of a record
\* of `exact`, and no two entries of `similar` have the same id.
C1_SimilarDisjointNoDuplicates ==
  Ran =>
    /\ \A i \in 1..Len(results.similar), j \in 1..Len(results.exact) :
         results.similar[i].id # results.exact[j].id
    /\ \A i, j \in 1..Len(results.similar) :
         i # j => results.similar[i].id # results.similar[j].id

\* C2: after the effect has run, a catalog record is in `forSymptom` iff one of
\* its indication keywords, lower-cased, contains the normalized query.
C2_ForSymptomCaseInsensitive ==
  Ran =>
    \A k \in 1..Len(catalog) :
      InBucket(results.forSymptom, catalog[k]) <=>
        \E w \in 1..Len(catalog[k].indications.keywords) :
          Includes(ToLowerCase(catalog[k].indications.keywords[w]), NormalizedQuery)

\* C3: after the effect has run, the alert is non-null iff some user drug has a
\* symptom containing the normalized query, and the message then lists exactly
\* the names of those drugs, joined by ", ", in list order.
C3_AlertIffConflict ==
  Ran =>
    LET conflicting == SelectSeq(userDrugs, DrugConflicts) IN
    /\ (symptomAlert # NULL) <=> (conflicting # <<>>)
    /\ symptomAlert # NULL =>
         symptomAlert = alertMessage(query, Join(MapName(conflicting), <<",", " ">>))

\* C4: after the effect has run, `exact` holds only records whose lower-cased
\* name equals the trimmed, lower-cased query, every such catalog record, in
\* catalog order.
C4_ExactBucket ==
  Ran =>
    /\ \A i \in 1..Len(results.exact) :
         InBucket(catalog, results.exact[i]) /\ NameEqualsQuery(results.exact[i])
    /\ \A k \in 1..Len(catalog) :
         NameEqualsQuery(catalog[k]) => Occurrences(results.exact, catalog[k]) = 1
    /\ InCatalogOrder(results.exact)

\* C4 witness: a query that needs trimming and lower-casing matched two records,
\* one of them stored with another letter case.
C4_Witness ==
  /\ Ran
  /\ query # NormalizedQuery
  /\ Len(results.exact) >= 2
  /\ \E i \in 1..Len(results.exact) : results.exact[i].name # NormalizedQuery
  /\ Len(results.exact) < Len(catalog)

\* C5: when `exact` is empty, `similar` is exactly the sequence of partial
\* matches, in catalog order.
C5_SimilarIsPartialWhenNoExact ==
  (Ran /\ results.exact = <<>>) =>
    results.similar = SelectSeq(catalog, NameContainsQuery)

\* C5 witness: no exact match, two partial matches in different categories, and
\* a record that is no match at all.
C5_Witness ==
  /\ Ran
  /\ results.exact = <<>>
  /\ Len(results.similar) >= 2
  /\ results.similar[1].category # results.similar[2].category
  /\ Len(results.similar) < Len(catalog)
  /\ NormalizedQuery # <<>>

\* C6: a missing, empty or whitespace-only query makes the effect complete
\* without throwing, with three empty buckets and no alert.
C6_BlankQueryNoMatch ==
  (~effectPending /\ (query = Undefined \/ IsBlank(query))) =>
    /\ ~faulted
    /\ results = emptyResults
    /\ symptomAlert = NULL

\* C7: once the effect for the latest change has run, results and symptomAlert
\* are what one search from the initial state produces for the current query,
\* user-drug list and catalog.
C7_NoCarryOver ==
  /\ Ran =>
       /\ results = searchResults(catalog, query)
       /\ symptomAlert = symptomAlertAfter(NULL, userDrugs, query)
       /\ (symptomAlert # NULL <=> conflictingDrugs(userDrugs, query) # <<>>)
  /\ faulted => (results = emptyResults /\ symptomAlert = NULL)

\* C7 witness: after navigations and a user-drug change, the effect has run for
\* a query that has no conflict with a non-empty user-drug list.
C7_Witness ==
  /\ Ran
  /\ lastCall = "effect"
  /\ navigations >= 2
  /\ userDrugs # <<>>
  /\ symptomAlert = NULL
  /\ results.similar # <<>>
  /\ results.forSymptom # <<>>

\* C8: when `exact` is non-empty, the records `similar` holds without their
\* being partial matches are exactly the catalog records of the first exact
\* record's category that are no exact match themselves.
C8_CategoryPart ==
  (Ran /\ results.exact # <<>>) =>
    /\ \A k \in 1..Len(catalog) :
         (catalog[k].category = results.exact[1].category /\ ~NameEqualsQuery(catalog[k]))
           => InBucket(results.similar, catalog[k])
    /\ \A i \in 1..Len(results.similar) :
         \/ NameContainsQuery(results.similar[i])
         \/ /\ results.similar[i].category = results.exact[1].category
            /\ ~NameEqualsQuery(results.similar[i])

\* C9: `similar` is the records of the first exact record's category in catalog
\* order, followed by the partial matches not among them nor in `exact`, in
\* catalog order; every partial match is in `similar` exactly once; `exact` and
\* `forSymptom` are in catalog order.
C9_SimilarOrder ==
  Ran =>
    LET sim == results.similar
        n == Cardinality({k \in 1..Len(catalog) : SharesFirstExactCategory(catalog[k])})
    IN
    /\ Len(sim) >= n
    /\ \A i \in 1..Len(sim) :
         IF i <= n
         THEN SharesFirstExactCategory(sim[i])
         ELSE /\ NameContainsQuery(sim[i])
              /\ ~SharesFirstExactCategory(sim[i])
              /\ Occurrences(results.exact, sim[i]) = 0
    /\ \A i, j \in 1..Len(sim) :
         (i < j /\ (j <= n \/ i > n)) => PositionOf(sim[i]) < PositionOf(sim[j])
    /\ \A k \in 1..Len(catalog) :
         /\ SharesFirstExactCategory(catalog[k]) => Occurrences(sim, catalog[k]) = 1
         /\ NameContainsQuery(catalog[k]) => Occurrences(sim, catalog[k]) = 1
    /\ InCatalogOrder(results.exact)
    /\ InCatalogOrder(results.forSymptom)

\* C9 witness: `similar` holds a category-based record followed by a partial
\* match that stands earlier in the catalog.
C9_Witness ==
  /\ Ran
  /\ \E i, j \in 1..Len(results.similar) :
       /\ i < j
       /\ SharesFirstExactCategory(results.similar[i])
       /\ ~SharesFirstExactCategory(results.similar[j])
       /\ PositionOf(results.similar[i]) > PositionOf(results.similar[j])
  /\ Len(results.forSymptom) >= 2

\* C10: handleNewSearch with a blank typed text changes neither the navigation
\* count nor query, results and symptomAlert; with a non-blank text it issues
\* exactly one navigation that makes the typed text the query.
C10_HandleNewSearch ==
  [][lastCall' = "handleNewSearch" =>
       IF IsBlank(newQuery)
       THEN UNCHANGED <<navigations, query, results, symptomAlert>>
       ELSE /\ navigations' = navigations + 1
            /\ query' = newQuery
            /\ ~IsBlank(query')
            /\ UNCHANGED <<results, symptomAlert>>]_vars

\* C10 witness: after an earlier navigation, handleNewSearch ran last with a
\* whitespace-only typed text.
C10_Witness ==
  /\ lastCall = "handleNewSearch"
  /\ navigations >= 1
  /\ newQuery # <<>>
  /\ IsBlank(newQuery)
  /\ query # newQuery

====
